---- MODULE Spec2Model ----
(***************************************************************************)
(* Model of the AI Task Planner's scheduling and execution-simulation      *)
(* core: ExecutionSimulationService (services/                             *)
(* execution_simulation_service.py), the sorter it shares with             *)
(* TaskDecompositionService, and BaseAgent.assign_task (agents/            *)
(* base_agent.py).                                                         *)
(*                                                                         *)
(* A task of the loaded project is identified by its position in           *)
(* project.tasks, which is also its id (ids are unique in a project).  The *)
(* immutable fields of the Task objects are in `tasks`, the fields the     *)
(* service and the agents assign to (status, assigned_agent) are in        *)
(* functions over the ids, because the queue, the running list and the     *)
(* completed list all hold references to the same Task objects.            *)
(*                                                                         *)
(* Simulated time is counted in rounds of 30 minutes from the run's start. *)
(***************************************************************************)
EXTENDS Integers, Sequences, FiniteSets, TLC

----------------------------------------------------------------------------
(* Bounds of the model *)

\* most tasks in a task set handed to the sorter alone
MaxTasks == 3
\* most tasks in a project handed to a simulation run
MaxSimTasks == 2
\* most dependency ids of one task
MaxDeps == 2
\* priorities are drawn from 1..MaxPriority (the Task model allows 1..5)
MaxPriority == 2
\* max_concurrent_tasks of a request is drawn from 1..MaxConcurrent (the model allows 1..10)
MaxConcurrent == 2
\* simulate_execution calls made on one service instance
MaxRuns == 2
\* assignment-oracle failures in one run
MaxOracleFailures == 1
\* request.max_depth of a decomposition
MaxDepth == 3
\* subtasks in one agent result
MaxSubtasks == 2

----------------------------------------------------------------------------
(* Program constants *)

\* max_rounds of _simulate_autonomous_execution
max_rounds == 50
\* the default of `task.estimated_hours or 4`, in hours
DefaultHours == 4
\* rounds of 30 minutes in one hour
RoundsPerHour == 2
\* BaseAgent.get_max_concurrent_tasks
get_max_concurrent_tasks == 3
\* the default of AgentExecutionRequest.max_concurrent_tasks
default_max_concurrent_tasks == 3
\* a dependency id that is the id of no task of the project
DanglingId == 0
\* Task.estimated_hours = None
NoHours == -1

AgentType == {"planner", "analyzer", "developer", "tester", "reviewer", "coordinator"}

----------------------------------------------------------------------------
VARIABLES
    tasks,              \* project.tasks of the stored project: sequence of Task (immutable fields)
    status,             \* Task.status of each task
    assigned_agent,     \* Task.assigned_agent of each task ("none" when unset)
    pc,                 \* position of the control
    sorted_tasks,       \* _sort_tasks_for_execution: sorted_tasks
    remaining_tasks,    \* _sort_tasks_for_execution: remaining_tasks
    max_concurrent_tasks, \* request.max_concurrent_tasks
    current_time,       \* simulation_state["current_time"], rounds since start_time
    task_queue,         \* simulation_state["task_queue"]
    running_tasks,      \* simulation_state["running_tasks"]
    completed_tasks,    \* simulation_state["completed_tasks"] (the list of line 61)
    failed_tasks,       \* simulation_state["failed_tasks"]
    agent_workloads,    \* simulation_state["agent_workloads"]
    execution_log,      \* simulation_state["execution_log"]
    execution_rounds,   \* _simulate_autonomous_execution: execution_rounds
    available_slots,    \* _start_new_tasks: available_slots
    slot,               \* _start_new_tasks: iterations of the for loop done
    current_tasks,      \* BaseAgent.current_tasks of each agent of the service
    is_available,       \* BaseAgent.is_available of each agent of the service
    project_found,      \* whether the project store holds the requested project
    execution_results,  \* what _simulate_autonomous_execution returned (<<>> before)
    result,             \* what simulate_execution gave its caller
    runs,               \* simulate_execution calls so far
    oracle_failures,    \* oracle failures in this run
    previous_run,       \* history: what the run before this one left (its ordering, its log)
    decomposition       \* _perform_decomposition: its locals, and the agent results so far

vars == <<tasks, status, assigned_agent, pc, sorted_tasks, remaining_tasks,
          max_concurrent_tasks, current_time, task_queue, running_tasks,
          completed_tasks, failed_tasks, agent_workloads, execution_log,
          execution_rounds, available_slots, slot, current_tasks, is_available,
          project_found, execution_results, result, runs, oracle_failures,
          previous_run, decomposition>>

sortVars == <<sorted_tasks, remaining_tasks>>
simVars == <<max_concurrent_tasks, current_time, task_queue, running_tasks,
             completed_tasks, failed_tasks, agent_workloads, execution_log,
             execution_rounds, available_slots, slot, oracle_failures,
             execution_results>>
agentVars == <<current_tasks, is_available>>
taskVars == <<status, assigned_agent>>

----------------------------------------------------------------------------
(* Task sets *)

EstimatedHoursValues == {NoHours, 1}

\* the ids a task set of n tasks can name as dependencies
DepIds(n) == (1..n) \cup {DanglingId}

DepSets(n) == {S \in SUBSET DepIds(n) : Cardinality(S) <= MaxDeps}

\* task sets of n tasks with unique ids and no task depending on itself
TaskSets(n, hours) ==
    {p \in [1..n -> [id : {0}, priority : 1..MaxPriority,
                     estimated_hours : hours, dependencies : DepSets(n)]] :
        \A i \in 1..n : i \notin p[i].dependencies}

WithIds(p) == [i \in DOMAIN p |-> [p[i] EXCEPT !.id = i]]

Ids(seq) == {seq[i] : i \in DOMAIN seq}

----------------------------------------------------------------------------
(* _sort_tasks_for_execution *)

\* DependenciesSorted with a dependency on a completed task counted as resolved
DependenciesSorted_or_completed(task, sorted) ==
    \/ task.dependencies = {}
    \/ \A dep_id \in task.dependencies :
            \/ dep_id \in Ids(sorted)
            \/ dep_id \in DOMAIN status /\ status[dep_id] = "completed"

\* the condition of lines 398-400: no dependencies, or all of them already in sorted_tasks
DependenciesSorted(task, sorted) ==
    \/ task.dependencies = {}
    \/ \A dep_id \in task.dependencies : dep_id \in Ids(sorted)

\* InsertByPriority that puts a task before the tasks of its priority: a descending
\* sort that is not stable
RECURSIVE InsertByPriority_before_equal(_, _)
InsertByPriority_before_equal(sorted, t) ==
    IF sorted = <<>> THEN <<t>>
    ELSE IF tasks[Head(sorted)].priority > tasks[t].priority
         THEN <<Head(sorted)>> \o InsertByPriority_before_equal(Tail(sorted), t)
         ELSE <<t>> \o sorted

\* list.sort(key=lambda t: t.priority, reverse=True): stable, descending priority
RECURSIVE InsertByPriority(_, _)
InsertByPriority(sorted, t) ==
    IF sorted = <<>> THEN <<t>>
    ELSE IF tasks[Head(sorted)].priority >= tasks[t].priority
         THEN <<Head(sorted)>> \o InsertByPriority(Tail(sorted), t)
         ELSE <<t>> \o sorted

RECURSIVE SortByPriority(_)
SortByPriority(seq) ==
    IF seq = <<>> THEN <<>>
    ELSE InsertByPriority(SortByPriority(SubSeq(seq, 1, Len(seq) - 1)), seq[Len(seq)])

\* list.remove(x): drops the first element equal to x
RECURSIVE Remove(_, _)
Remove(seq, x) ==
    IF seq = <<>> THEN <<>>
    ELSE IF Head(seq) = x THEN Tail(seq)
    ELSE <<Head(seq)>> \o Remove(Tail(seq), x)

\* lines 396-401
ReadyTasks(remaining, sorted) ==
    SelectSeq(remaining, LAMBDA t : DependenciesSorted(tasks[t], sorted))

\* lines 410-416: one iteration of the while loop that finds a ready task
SortSelect ==
    /\ pc = "sort"
    /\ remaining_tasks # <<>>
    /\ LET ready_tasks == ReadyTasks(remaining_tasks, sorted_tasks)
       IN /\ ready_tasks # <<>>
          /\ LET task == Head(SortByPriority(ready_tasks))
             IN /\ sorted_tasks' = Append(sorted_tasks, task)
                /\ remaining_tasks' = Remove(remaining_tasks, task)
    /\ UNCHANGED <<tasks, project_found, previous_run, decomposition, taskVars, pc, simVars, agentVars, result, runs>>

\* SortDrain with the break alone, the remaining tasks not appended
SortDrain_break_only ==
    /\ pc = "sort"
    /\ remaining_tasks # <<>>
    /\ ReadyTasks(remaining_tasks, sorted_tasks) = <<>>
    /\ pc' = "sort_break"
    /\ UNCHANGED <<tasks, project_found, previous_run, decomposition, taskVars, sortVars, simVars, agentVars, result, runs>>

\* SortDrain with the remaining tasks appended as they are, not sorted by priority
SortDrain_unsorted ==
    /\ pc = "sort"
    /\ remaining_tasks # <<>>
    /\ ReadyTasks(remaining_tasks, sorted_tasks) = <<>>
    /\ sorted_tasks' = sorted_tasks \o remaining_tasks
    /\ pc' = "sort_break"
    /\ UNCHANGED <<tasks, project_found, previous_run, decomposition, remaining_tasks, taskVars, simVars,
                   agentVars, result, runs>>

\* lines 403-408: no ready task, the remaining ones are appended by priority; break
SortDrain ==
    /\ pc = "sort"
    /\ remaining_tasks # <<>>
    /\ ReadyTasks(remaining_tasks, sorted_tasks) = <<>>
    /\ remaining_tasks' = SortByPriority(remaining_tasks)
    /\ sorted_tasks' = sorted_tasks \o remaining_tasks'
    /\ pc' = "sort_break"
    /\ UNCHANGED <<tasks, project_found, previous_run, decomposition, taskVars, simVars, agentVars, result, runs>>

\* line 418: the loop ended (remaining_tasks empty, or break)
SortReturn ==
    /\ \/ pc = "sort" /\ remaining_tasks = <<>>
       \/ pc = "sort_break"
    /\ pc' = "sorted"
    /\ UNCHANGED <<tasks, project_found, previous_run, decomposition, taskVars, sortVars, simVars, agentVars, result, runs>>

----------------------------------------------------------------------------
(* The execution log *)

\* one entry of simulation_state["execution_log"]; the timestamp is current_time
LogEntry(type, task, agent, info) ==
    [timestamp |-> current_time, type |-> type, task_id |-> task,
     agent_type |-> agent, info |-> info]

\* _log_execution_state: the round's heartbeat.  Its "completed_tasks" field is the
\* completed list itself (line 436 with the list of line 61): the entry holds the
\* reference, no copy and no count.
log_execution_state(round) ==
    LogEntry("state", 0, "none",
             <<round, Len(running_tasks), Len(task_queue), "completed_tasks">>)

\* an entry as its reader finds it: the completed_tasks field of a heartbeat shows
\* the completed list as it is at the time of reading
ReadEntry(entry, completed) ==
    IF entry.type = "state"
    THEN [entry EXCEPT !.info = <<@[1], @[2], @[3], completed>>]
    ELSE entry

\* _log_error: the message, with the task id and the agent type it names
log_error(message, task, agent) == LogEntry("error", task, agent, <<message>>)

----------------------------------------------------------------------------
(* simulate_execution *)

NoResult ==
    [kind |-> "none", error |-> "", execution_log |-> <<>>,
     completion_percentage |-> 0, estimated_remaining_hours |-> 0]

\* lines 43-48: the response for a project the store does not hold
NotFoundResponse ==
    [kind |-> "response", error |-> "Project not found", execution_log |-> <<>>,
     completion_percentage |-> 0, estimated_remaining_hours |-> 0]

\* an exception that leaves simulate_execution
Raised(exception) ==
    [kind |-> "exception", error |-> exception, execution_log |-> <<>>,
     completion_percentage |-> 0, estimated_remaining_hours |-> 0]

\* _load_project (lines 420-425): whether the store gives a project for the id.
\* The source has a placeholder for the store, which holds no project; the store is
\* an external collaborator, and here it holds the requested project or does not.
load_project == project_found

\* simulation_state["agent_workloads"] of line 58
NoWorkload == [a \in AgentType |-> 0]

\* lines 37-66: load the project, answer "not found" or initialise the state of the
\* run and call the sorter.  The service outlives the call (main.py keeps one
\* instance and turns an exception into an HTTP 500), so a later request finds the
\* agents as the earlier one left them, and the stored tasks with the status the
\* earlier run gave them.  request.simulation_mode is not modelled: both of its
\* branches (lines 70-79) run _simulate_autonomous_execution.  previous_run keeps
\* what the earlier run left, for the comparison of runs: its ordering, and its log
\* where keep_log asks for it.
SimulateExecutionWith(max_concurrent, keep_log) ==
    /\ pc \in {"idle", "returned", "raised"}
    /\ runs < MaxRuns
    /\ runs' = runs + 1
    /\ previous_run' = [sorted_tasks |-> sorted_tasks,
                        execution_log |-> IF keep_log THEN execution_log ELSE <<>>]
    /\ max_concurrent_tasks' = max_concurrent
    /\ current_time' = 0
    /\ completed_tasks' = <<>>
    /\ failed_tasks' = <<>>
    /\ running_tasks' = <<>>
    /\ agent_workloads' = NoWorkload
    /\ execution_log' = <<>>
    /\ execution_rounds' = 0
    /\ available_slots' = 0
    /\ slot' = 0
    /\ oracle_failures' = 0
    /\ execution_results' = <<>>
    /\ sorted_tasks' = <<>>
    /\ IF load_project
       THEN /\ task_queue' = [i \in DOMAIN tasks |-> i]
            /\ remaining_tasks' = [i \in DOMAIN tasks |-> i]
            /\ result' = NoResult
            /\ pc' = "sort"
       ELSE /\ task_queue' = <<>>
            /\ remaining_tasks' = <<>>
            /\ result' = NotFoundResponse
            /\ pc' = "returned"
    /\ UNCHANGED <<tasks, project_found, decomposition, taskVars, agentVars>>

\* a request with any max_concurrent_tasks within the bound
SimulateExecution ==
    \E m \in 1..MaxConcurrent : SimulateExecutionWith(m, FALSE)

\* EnterSimulation with the tasks that are already Completed left out of the queue
EnterSimulation_skips_completed ==
    /\ pc = "sorted"
    /\ task_queue' = SelectSeq(sorted_tasks, LAMBDA t : status[t] # "completed")
    /\ execution_rounds' = 0
    /\ pc' = "loop"
    /\ UNCHANGED <<tasks, project_found, previous_run, decomposition, taskVars, sortVars, max_concurrent_tasks,
                   current_time, running_tasks, completed_tasks, failed_tasks,
                   agent_workloads, execution_log, available_slots, slot,
                   oracle_failures, execution_results, agentVars, result, runs>>

\* lines 67-73 and 100-101: the sorted tasks become the queue, the round loop is entered
EnterSimulation ==
    /\ pc = "sorted"
    /\ task_queue' = sorted_tasks
    /\ execution_rounds' = 0
    /\ pc' = "loop"
    /\ UNCHANGED <<tasks, project_found, previous_run, decomposition, taskVars, sortVars, max_concurrent_tasks,
                   current_time, running_tasks, completed_tasks, failed_tasks,
                   agent_workloads, execution_log, available_slots, slot,
                   oracle_failures, execution_results, agentVars, result, runs>>

\* the condition of the while loop, line 103
LoopCondition ==
    /\ task_queue # <<>> \/ running_tasks # <<>>
    /\ execution_rounds < max_rounds

\* lines 103-107: a round begins, its heartbeat is logged
RoundBegin ==
    /\ pc = "loop"
    /\ LoopCondition
    /\ execution_rounds' = execution_rounds + 1
    /\ execution_log' = Append(execution_log, log_execution_state(execution_rounds'))
    /\ pc' = "process"
    /\ UNCHANGED <<tasks, project_found, previous_run, decomposition, taskVars, sortVars, max_concurrent_tasks,
                   current_time, task_queue, running_tasks, completed_tasks,
                   failed_tasks, agent_workloads, available_slots, slot,
                   oracle_failures, execution_results, agentVars, result, runs>>

----------------------------------------------------------------------------
(* _process_running_tasks *)

\* line 138: task.estimated_hours or 4 (None and 0 are both falsy)
estimated_duration(task) ==
    IF task.estimated_hours = NoHours \/ task.estimated_hours = 0
    THEN DefaultHours ELSE task.estimated_hours

\* line 140, in rounds
required_duration(task) == RoundsPerHour * estimated_duration(task)

\* line 139
elapsed_time(task_info) == current_time - task_info.start_time

\* line 142: elapsed_time >= required_duration
IsDue(task_info) == elapsed_time(task_info) >= required_duration(tasks[task_info.task])

\* _log_task_progress of line 150
log_task_progress(task_info) ==
    LogEntry("task_progress", task_info.task, task_info.agent_type,
             <<elapsed_time(task_info), required_duration(tasks[task_info.task])>>)

\* _log_task_completion
log_task_completion(task_info) ==
    LogEntry("task_completion", task_info.task, task_info.agent_type, <<current_time>>)

\* the running tasks that are due, by position
DuePositions == {i \in DOMAIN running_tasks : IsDue(running_tasks[i])}

FirstDue == CHOOSE i \in DuePositions : \A j \in DuePositions : i <= j

\* TakeWorkload that leaves the count as it is
TakeWorkload_not_counted(workloads, agent_type) == workloads

\* line 272: the workload of the type goes up by one
TakeWorkload(workloads, agent_type) == [workloads EXCEPT ![agent_type] = @ + 1]

\* line 326: max(0, workload - 1)
ReleaseWorkload(workloads, agent_type) ==
    [workloads EXCEPT ![agent_type] = IF @ - 1 > 0 THEN @ - 1 ELSE 0]

\* lines 127-154 with no task due: every running task logs its progress
ProcessRunningTasks ==
    /\ pc = "process"
    /\ DuePositions = {}
    /\ execution_log' = execution_log \o
            [i \in DOMAIN running_tasks |-> log_task_progress(running_tasks[i])]
    /\ pc' = "start"
    /\ UNCHANGED <<tasks, project_found, previous_run, decomposition, taskVars, sortVars, max_concurrent_tasks,
                   current_time, task_queue, running_tasks, completed_tasks,
                   failed_tasks, agent_workloads, execution_rounds, available_slots,
                   slot, oracle_failures, execution_results, agentVars, result, runs>>

\* lines 127-146 with a task due: the tasks before the first due one log their
\* progress, the due one is completed by _complete_task_simulation (lines 310-329),
\* and then line 146 adds 1 to simulation_state["completed_tasks"], which is the
\* list of line 61 (the dict literal of lines 51-63 has the key twice, the 0 of
\* line 55 is overwritten): list += int raises TypeError.  Nothing catches it
\* before simulate_execution's caller; running_tasks keeps the task (line 154 is
\* not reached).
CompleteTaskRaises ==
    /\ pc = "process"
    /\ DuePositions # {}
    /\ LET task_info == running_tasks[FirstDue]
       IN /\ execution_log' = (execution_log \o
                [i \in 1..(FirstDue - 1) |-> log_task_progress(running_tasks[i])])
                \o <<log_task_completion(task_info)>>
          /\ status' = [status EXCEPT ![task_info.task] = "completed"]
          /\ completed_tasks' = Append(completed_tasks, task_info.task)
          /\ agent_workloads' = ReleaseWorkload(agent_workloads, task_info.agent_type)
    /\ result' = Raised("TypeError")
    /\ pc' = "raised"
    /\ UNCHANGED <<tasks, project_found, previous_run, decomposition, assigned_agent, sortVars, max_concurrent_tasks,
                   current_time, task_queue, running_tasks, failed_tasks,
                   execution_rounds, available_slots, slot, oracle_failures,
                   execution_results, agentVars, runs>>

----------------------------------------------------------------------------
(* _start_new_tasks *)

\* are_dependencies_satisfied with the check of the dependencies left out
are_dependencies_satisfied_unchecked(task) == TRUE

\* lines 193-200
are_dependencies_satisfied(task) ==
    \/ task.dependencies = {}
    \/ \A dep_id \in task.dependencies : dep_id \in Ids(completed_tasks)

\* lines 185-191: the positions of the queue whose task could start
AvailablePositions ==
    {i \in DOMAIN task_queue : are_dependencies_satisfied(tasks[task_queue[i]])}

\* NextAvailable scanning the queue from the back
NextAvailable_last == CHOOSE i \in AvailablePositions : \A j \in AvailablePositions : j <= i

\* the position _find_next_available_task pops: the first available one
NextAvailable == CHOOSE i \in AvailablePositions : \A j \in AvailablePositions : i <= j

\* Pop that reads the element and leaves it in the list
Pop_keeps(seq, i) == seq

\* list.pop(i)
Pop(seq, i) == SubSeq(seq, 1, i - 1) \o SubSeq(seq, i + 1, Len(seq))

\* what the assignment oracle can do: name an agent type, say something else, or fail
OracleAnswers == {"developer", "tester", "something else", "fails"}

\* agent_mapping with another default than Developer
agent_mapping_default_planner(answer) == IF answer \in AgentType THEN answer ELSE "planner"

\* lines 230-246: the suggestion mapped to an AgentType, Developer by default
agent_mapping(answer) == IF answer \in AgentType THEN answer ELSE "developer"

\* CanAssign with room for one task more than get_max_concurrent_tasks
CanAssign_one_more(agent_type) ==
    /\ is_available[agent_type]
    /\ Len(current_tasks[agent_type]) <= get_max_concurrent_tasks

\* BaseAgent.assign_task, line 37: the agent takes the task
CanAssign(agent_type) ==
    /\ is_available[agent_type]
    /\ Len(current_tasks[agent_type]) < get_max_concurrent_tasks

\* StartNewTasks with the running tasks not subtracted from the slots
StartNewTasks_ignores_running ==
    /\ pc = "start"
    /\ available_slots' = max_concurrent_tasks
    /\ slot' = 0
    /\ pc' = "admit"
    /\ UNCHANGED <<tasks, project_found, previous_run, decomposition, taskVars, sortVars, max_concurrent_tasks,
                   current_time, task_queue, running_tasks, completed_tasks,
                   failed_tasks, agent_workloads, execution_log, execution_rounds,
                   oracle_failures, execution_results, agentVars, result, runs>>

\* line 163: the slots of this round
StartNewTasks ==
    /\ pc = "start"
    /\ available_slots' = max_concurrent_tasks - Len(running_tasks)
    /\ slot' = 0
    /\ pc' = "admit"
    /\ UNCHANGED <<tasks, project_found, previous_run, decomposition, taskVars, sortVars, max_concurrent_tasks,
                   current_time, task_queue, running_tasks, completed_tasks,
                   failed_tasks, agent_workloads, execution_log, execution_rounds,
                   oracle_failures, execution_results, agentVars, result, runs>>

\* AdmitCondition without the limit of the slots
AdmitCondition_no_slot_limit ==
    /\ task_queue # <<>>
    /\ AvailablePositions # {}

\* the for loop of line 165 goes on: slots left, queue not empty, a task available
AdmitCondition ==
    /\ slot < available_slots
    /\ task_queue # <<>>
    /\ AvailablePositions # {}

\* InProgress that leaves the status of the task as it is
InProgress_not_set(statuses, task) == statuses

\* BaseAgent.assign_task, line 42: task.status = TaskStatus.IN_PROGRESS
InProgress(statuses, task) == [statuses EXCEPT ![task] = "in_progress"]

\* Requeue with the task put at the back of the queue
Requeue_at_back(queue, task) == Append(queue, task)

\* line 281: task_queue.insert(0, task)
Requeue(queue, task) == <<task>> \o queue

\* lines 165-180, one iteration: the first available task is popped, the oracle is
\* asked (lines 202-246), and _start_task_execution (lines 248-282) has the agent
\* take the task or puts it back at the front of the queue.  `processed` is whether
\* agent.process_task returned a result (line 305) or raised (line 308).
AdmitIteration(answer, processed) ==
    /\ pc = "admit"
    /\ AdmitCondition
    /\ answer = "fails" => oracle_failures < MaxOracleFailures
    /\ LET next_task == task_queue[NextAvailable]
           popped == Pop(task_queue, NextAvailable)
           agent_type == agent_mapping(answer)
           selection_log == IF answer = "fails"
                            THEN <<log_error("Error selecting agent", 0, "none")>>
                            ELSE <<>>
       IN /\ oracle_failures' = IF answer = "fails" THEN oracle_failures + 1
                                                    ELSE oracle_failures
          /\ IF CanAssign(agent_type)
             THEN /\ current_tasks' = [current_tasks EXCEPT
                                         ![agent_type] = Append(@, next_task)]
                  /\ assigned_agent' = [assigned_agent EXCEPT ![next_task] = agent_type]
                  /\ status' = InProgress(status, next_task)
                  /\ running_tasks' = Append(running_tasks,
                        [task |-> next_task, agent_type |-> agent_type,
                         start_time |-> current_time])
                  /\ agent_workloads' = TakeWorkload(agent_workloads, agent_type)
                  /\ task_queue' = popped
                  /\ execution_log' = execution_log \o selection_log \o
                        <<LogEntry("task_start", next_task, agent_type,
                                   <<estimated_duration(tasks[next_task])>>),
                          IF processed
                          THEN LogEntry("task_processing", next_task, agent_type, <<>>)
                          ELSE log_error("Error processing task", next_task, agent_type)>>
             ELSE /\ processed
                  /\ task_queue' = Requeue(popped, next_task)
                  /\ execution_log' = execution_log \o selection_log \o
                        <<log_error("Agent not available for task", next_task, agent_type)>>
                  /\ UNCHANGED <<current_tasks, assigned_agent, status, running_tasks,
                                 agent_workloads>>
    /\ slot' = slot + 1
    /\ UNCHANGED <<tasks, project_found, previous_run, decomposition, pc, sortVars, max_concurrent_tasks, current_time,
                   completed_tasks, failed_tasks, execution_rounds, available_slots,
                   execution_results, is_available, result, runs>>

\* the for loop ends (lines 165-172), and line 116 advances the time by 30 minutes
AdvanceTime ==
    /\ pc = "admit"
    /\ ~AdmitCondition
    /\ current_time' = current_time + 1
    /\ pc' = "loop"
    /\ UNCHANGED <<tasks, project_found, previous_run, decomposition, taskVars, sortVars, max_concurrent_tasks,
                   task_queue, running_tasks, completed_tasks, failed_tasks,
                   agent_workloads, execution_log, execution_rounds, available_slots,
                   slot, oracle_failures, execution_results, agentVars, result, runs>>

----------------------------------------------------------------------------
(* The end of a run *)

\* lines 121-125: the while loop ended, the results of the loop are returned
LoopExit ==
    /\ pc = "loop"
    /\ ~LoopCondition
    /\ execution_results' = <<[execution_rounds |-> execution_rounds,
                               simulation_duration |-> current_time,
                               success |-> execution_rounds < max_rounds]>>
    /\ pc' = "final"
    /\ UNCHANGED <<tasks, project_found, previous_run, decomposition, taskVars, sortVars, max_concurrent_tasks,
                   current_time, task_queue, running_tasks, completed_tasks,
                   failed_tasks, agent_workloads, execution_log, execution_rounds,
                   available_slots, slot, oracle_failures, agentVars, result, runs>>

\* line 82: _calculate_final_status computes, at line 352,
\* total_tasks - completed_tasks - failed_tasks with completed_tasks the list of
\* line 61: int - list raises TypeError, which leaves simulate_execution.
CalculateFinalStatusRaises ==
    /\ pc = "final"
    /\ result' = Raised("TypeError")
    /\ pc' = "raised"
    /\ UNCHANGED <<tasks, project_found, previous_run, decomposition, taskVars, sortVars, simVars, agentVars, runs>>

----------------------------------------------------------------------------
(* CoordinatorAgent: _sort_tasks_by_dependencies and execute_workflow *)

\* lines 305-307: no dependencies, or all of them already in sorted_tasks
NoUnresolvedDependencies(task, sorted) ==
    \/ task.dependencies = {}
    \/ \A dep_id \in task.dependencies : dep_id \in Ids(sorted)

\* lines 303-308
CoordinatorReadyTasks(remaining, sorted) ==
    SelectSeq(remaining, LAMBDA t : NoUnresolvedDependencies(tasks[t], sorted))

\* lines 314-321: one iteration of the while loop that finds a ready task
CoordinatorSelect ==
    /\ pc = "coordinator_sort"
    /\ remaining_tasks # <<>>
    /\ LET ready_tasks == CoordinatorReadyTasks(remaining_tasks, sorted_tasks)
       IN /\ ready_tasks # <<>>
          /\ LET task == Head(SortByPriority(ready_tasks))
             IN /\ sorted_tasks' = Append(sorted_tasks, task)
                /\ remaining_tasks' = Remove(remaining_tasks, task)
    /\ UNCHANGED <<tasks, project_found, previous_run, decomposition, taskVars, pc, simVars, agentVars, result, runs>>

\* lines 310-312: no ready task; break, with the remaining tasks left out
CoordinatorBreak ==
    /\ pc = "coordinator_sort"
    /\ remaining_tasks # <<>>
    /\ CoordinatorReadyTasks(remaining_tasks, sorted_tasks) = <<>>
    /\ pc' = "coordinator_break"
    /\ UNCHANGED <<tasks, project_found, previous_run, decomposition, taskVars, sortVars, simVars, agentVars, result, runs>>

\* line 323: the loop ended (remaining_tasks empty, or break)
CoordinatorReturn ==
    /\ \/ pc = "coordinator_sort" /\ remaining_tasks = <<>>
       \/ pc = "coordinator_break"
    /\ pc' = "workflow"
    /\ UNCHANGED <<tasks, project_found, previous_run, decomposition, taskVars, sortVars, simVars, agentVars, result, runs>>

\* execute_workflow, lines 262-290: the loop over sorted_tasks. A Completed task is
\* skipped; a task whose selected agent is registered is processed and marked
\* Completed by complete_task; an exception of process_task ends the loop after
\* the tasks before it
ExecuteWorkflowTasks ==
    /\ pc = "workflow"
    /\ \E reached \in 0..Len(sorted_tasks) : \E registered \in SUBSET Ids(sorted_tasks) :
          status' = [t \in DOMAIN status |->
                        IF /\ \E i \in 1..reached : sorted_tasks[i] = t
                           /\ t \in registered
                        THEN "completed" ELSE status[t]]
    /\ pc' = "workflow_done"
    /\ UNCHANGED <<tasks, project_found, previous_run, decomposition, assigned_agent, sortVars, simVars,
                   agentVars, result, runs>>

----------------------------------------------------------------------------
(* TaskDecompositionService._perform_decomposition *)

\* _process_with_agent returned None: the agent raised (lines 259-261)
NoAgentResult == -2
\* the agent returned a result without the key "subtasks"
ResultWithoutSubtasks == -1
\* what _process_with_agent can return: no result, a result without subtasks, or a
\* result with a list of so many subtasks
AgentResults == {NoAgentResult, ResultWithoutSubtasks} \cup (0..MaxSubtasks)

\* MoreLayers with one layer more than max_depth
MoreLayers_one_deeper ==
    /\ decomposition.current_depth <= decomposition.max_depth
    /\ decomposition.current_tasks # <<>>

\* line 116: the condition of the while loop
MoreLayers ==
    /\ decomposition.current_depth < decomposition.max_depth
    /\ decomposition.current_tasks # <<>>

\* _create_subtasks (lines 263-298): n new Pending tasks, ids not used before
create_subtasks(n) ==
    [i \in 1..n |-> [id |-> Len(tasks) + i, priority |-> 3, estimated_hours |-> NoHours,
                     dependencies |-> {}]]

\* lines 117-124: the while condition holds, a layer starts
StartLayer ==
    /\ pc = "decompose_while"
    /\ MoreLayers
    /\ decomposition' = [decomposition EXCEPT
            !.next_layer_tasks = <<>>,
            !.position = 0,
            !.decomposition_layers =
                Append(@, [depth |-> decomposition.current_depth, tasks_processed |-> 0,
                           subtasks_created |-> 0])]
    /\ pc' = "decompose_layer"
    /\ UNCHANGED <<tasks, project_found, previous_run, taskVars, sortVars, simVars,
                   agentVars, result, runs>>

\* lines 126-162: one iteration of the for loop over the tasks of the layer
DecomposeTask(task_result) ==
    /\ pc = "decompose_layer"
    /\ decomposition.position < Len(decomposition.current_tasks)
    /\ LET task == decomposition.current_tasks[decomposition.position + 1]
           layer == Len(decomposition.decomposition_layers)
           subtasks == create_subtasks(IF task_result >= 0 THEN task_result ELSE 0)
           new_ids == [i \in DOMAIN subtasks |-> subtasks[i].id]
       IN IF status[task] = "completed"
          THEN /\ decomposition' = [decomposition EXCEPT !.position = @ + 1]
               /\ UNCHANGED <<tasks, taskVars>>
          ELSE /\ decomposition' = [decomposition EXCEPT
                      !.position = @ + 1,
                      !.next_layer_tasks = @ \o new_ids,
                      !.decomposition_layers[layer].tasks_processed = @ + 1,
                      !.decomposition_layers[layer].subtasks_created = @ + Len(subtasks),
                      !.task_results = Append(@, [task |-> task, result |-> task_result])]
               /\ tasks' = tasks \o subtasks
               /\ status' = [t \in DOMAIN tasks' |->
                                IF t \notin DOMAIN tasks THEN "pending"
                                ELSE IF t = task /\ task_result >= 0 THEN "completed"
                                ELSE status[t]]
               /\ assigned_agent' = [t \in DOMAIN tasks' |->
                                        IF t \in DOMAIN tasks THEN assigned_agent[t] ELSE "none"]
    /\ UNCHANGED <<project_found, previous_run, pc, sortVars, simVars, agentVars, result, runs>>

\* lines 164-168: the layer is done, the subtasks it created are the next layer
EndLayer ==
    /\ pc = "decompose_layer"
    /\ decomposition.position = Len(decomposition.current_tasks)
    /\ decomposition' = [decomposition EXCEPT
            !.current_tasks = decomposition.next_layer_tasks,
            !.current_depth = @ + 1]
    /\ pc' = "decompose_while"
    /\ UNCHANGED <<tasks, project_found, previous_run, taskVars, sortVars, simVars,
                   agentVars, result, runs>>

\* lines 170-173: the while condition fails, _perform_decomposition returns
DecompositionReturn ==
    /\ pc = "decompose_while"
    /\ ~MoreLayers
    /\ pc' = "decomposed"
    /\ UNCHANGED <<tasks, project_found, previous_run, decomposition, taskVars, sortVars,
                   simVars, agentVars, result, runs>>

----------------------------------------------------------------------------
(* BaseAgent, called on its own *)

\* BaseAgent.assign_task (lines 35-46): the agent takes the task, or refuses and
\* changes nothing
assign_task(agent_type, task) ==
    /\ pc = "idle"
    /\ IF CanAssign(agent_type)
       THEN /\ current_tasks' = [current_tasks EXCEPT ![agent_type] = Append(@, task)]
            /\ assigned_agent' = [assigned_agent EXCEPT ![task] = agent_type]
            /\ status' = InProgress(status, task)
       ELSE UNCHANGED <<current_tasks, assigned_agent, status>>
    /\ UNCHANGED <<tasks, project_found, previous_run, decomposition, pc, sortVars, simVars,
                   is_available, result, runs>>

\* BaseAgent.complete_task (lines 48-58): the id leaves current_tasks if it is there
\* (list.remove drops its first occurrence), the task is Completed either way
complete_task(agent_type, task) ==
    /\ pc = "idle"
    /\ current_tasks' = [current_tasks EXCEPT
                            ![agent_type] = IF task \in Ids(@) THEN Remove(@, task) ELSE @]
    /\ status' = [status EXCEPT ![task] = "completed"]
    /\ UNCHANGED <<tasks, project_found, previous_run, decomposition, pc, sortVars, simVars,
                   assigned_agent, is_available, result, runs>>

\* BaseAgent.set_availability (lines 78-81)
set_availability(agent_type, available) ==
    /\ pc = "idle"
    /\ is_available' = [is_available EXCEPT ![agent_type] = available]
    /\ UNCHANGED <<tasks, project_found, previous_run, decomposition, pc, sortVars, simVars,
                   current_tasks, taskVars, result, runs>>

----------------------------------------------------------------------------
(* The specifications *)

\* the state of a new service (lines 22-35, BaseAgent.__init__)
NewService ==
    /\ current_tasks = [a \in AgentType |-> <<>>]
    /\ is_available = [a \in AgentType |-> TRUE]
    /\ runs = 0

\* no decomposition in progress
NoDecomposition ==
    decomposition = [max_depth |-> 0, current_depth |-> 0, current_tasks |-> <<>>,
                     next_layer_tasks |-> <<>>, position |-> 0,
                     decomposition_layers |-> <<>>, task_results |-> <<>>]

\* no run yet
NoRun ==
    /\ max_concurrent_tasks = 1
    /\ current_time = 0
    /\ task_queue = <<>>
    /\ running_tasks = <<>>
    /\ completed_tasks = <<>>
    /\ failed_tasks = <<>>
    /\ agent_workloads = NoWorkload
    /\ execution_log = <<>>
    /\ execution_rounds = 0
    /\ available_slots = 0
    /\ slot = 0
    /\ oracle_failures = 0
    /\ execution_results = <<>>
    /\ result = NoResult
    /\ previous_run = [sorted_tasks |-> <<>>, execution_log |-> <<>>]

\* the tasks of a project as the decomposition leaves them: Pending, unassigned
NewTasks(p) ==
    /\ tasks = WithIds(p)
    /\ status = [i \in DOMAIN p |-> "pending"]
    /\ assigned_agent = [i \in DOMAIN p |-> "none"]

\* a service, and a project store that holds the requested project or not
Init ==
    /\ \E n \in 0..MaxSimTasks : \E p \in TaskSets(n, EstimatedHoursValues) : NewTasks(p)
    /\ project_found \in BOOLEAN
    /\ project_found = FALSE => tasks = <<>>
    /\ pc = "idle"
    /\ sorted_tasks = <<>>
    /\ remaining_tasks = <<>>
    /\ NewService
    /\ NoRun
    /\ NoDecomposition

Next ==
    \/ SimulateExecution
    \/ SortSelect
    \/ SortDrain
    \/ SortReturn
    \/ EnterSimulation
    \/ RoundBegin
    \/ ProcessRunningTasks
    \/ CompleteTaskRaises
    \/ StartNewTasks
    \/ \E answer \in OracleAnswers : \E processed \in BOOLEAN :
            AdmitIteration(answer, processed)
    \/ AdvanceTime
    \/ LoopExit
    \/ CalculateFinalStatusRaises

Spec == Init /\ [][Next]_vars

\* the sorter alone, on every task set within the bounds
SortInit ==
    /\ \E n \in 0..MaxTasks : \E p \in TaskSets(n, {NoHours}) : NewTasks(p)
    /\ project_found = TRUE
    /\ pc = "sort"
    /\ sorted_tasks = <<>>
    /\ remaining_tasks = [i \in DOMAIN tasks |-> i]
    /\ NewService
    /\ NoRun
    /\ NoDecomposition

SortNext ==
    \/ SortSelect
    \/ SortDrain
    \/ SortReturn

SortSpec == SortInit /\ [][SortNext]_vars

\* the sorter runs to its return: it is sequential code that nothing suspends
SortFairSpec == SortSpec /\ WF_vars(SortNext)

\* the first request a new service gets
FirstRequest ==
    /\ runs = 0
    /\ SimulateExecution

\* one run over three independent one-hour tasks
ThreeTaskInit ==
    /\ \E p \in TaskSets(3, {1}) :
          /\ \A i \in 1..3 : p[i].dependencies = {}
          /\ NewTasks(p)
    /\ project_found = TRUE
    /\ pc = "idle"
    /\ sorted_tasks = <<>>
    /\ remaining_tasks = <<>>
    /\ NewService
    /\ NoRun
    /\ NoDecomposition

ThreeTaskNext ==
    \/ FirstRequest
    \/ SortSelect
    \/ SortReturn
    \/ EnterSimulation
    \/ RoundBegin
    \/ ProcessRunningTasks
    \/ CompleteTaskRaises
    \/ StartNewTasks
    \/ \E answer \in OracleAnswers : \E processed \in BOOLEAN :
            AdmitIteration(answer, processed)
    \/ AdvanceTime

ThreeTaskSpec == ThreeTaskInit /\ [][ThreeTaskNext]_vars

\* The same request sent again and again to one service: the default
\* max_concurrent_tasks, an oracle that gives the same answer to every question and
\* agents that process every task.  The log of a run is kept for the next run.
ReplayRequest == SimulateExecutionWith(default_max_concurrent_tasks, TRUE)

ReplayAdmit == AdmitIteration("developer", TRUE)

ReplayNext ==
    \/ ReplayRequest
    \/ SortSelect
    \/ SortDrain
    \/ SortReturn
    \/ EnterSimulation
    \/ RoundBegin
    \/ ProcessRunningTasks
    \/ CompleteTaskRaises
    \/ StartNewTasks
    \/ ReplayAdmit
    \/ AdvanceTime
    \/ LoopExit
    \/ CalculateFinalStatusRaises

ReplaySpec == Init /\ [][ReplayNext]_vars

\* the repeated request on a project of three one-hour tasks, where a queue can hold
\* a blocked task in front of a task that can start
ReplayThreeInit ==
    /\ \E p \in TaskSets(3, {1}) : NewTasks(p)
    /\ project_found = TRUE
    /\ pc = "idle"
    /\ sorted_tasks = <<>>
    /\ remaining_tasks = <<>>
    /\ NewService
    /\ NoRun
    /\ NoDecomposition

ReplayThreeSpec == ReplayThreeInit /\ [][ReplayNext]_vars

\* decompose_task: a new project with its root task, and a request's max_depth
DecompositionInit ==
    /\ tasks = <<[id |-> 1, priority |-> 5, estimated_hours |-> NoHours, dependencies |-> {}]>>
    /\ status = [t \in DOMAIN tasks |-> "pending"]
    /\ assigned_agent = [t \in DOMAIN tasks |-> "none"]
    /\ project_found = TRUE
    /\ pc = "decompose_while"
    /\ sorted_tasks = <<>>
    /\ remaining_tasks = <<>>
    /\ NewService
    /\ NoRun
    /\ \E max_depth \in 1..MaxDepth :
          decomposition = [max_depth |-> max_depth, current_depth |-> 0,
                           current_tasks |-> <<1>>, next_layer_tasks |-> <<>>,
                           position |-> 0, decomposition_layers |-> <<>>,
                           task_results |-> <<>>]

DecompositionNext ==
    \/ StartLayer
    \/ \E task_result \in AgentResults : DecomposeTask(task_result)
    \/ EndLayer
    \/ DecompositionReturn

DecompositionSpec == DecompositionInit /\ [][DecompositionNext]_vars

\* _perform_decomposition runs to its return: every await in it comes back
DecompositionFairSpec == DecompositionSpec /\ WF_vars(DecompositionNext)

\* execute_workflow on a project whose tasks are Pending or already Completed
CoordinatorInit ==
    /\ \E n \in 0..MaxTasks : \E p \in TaskSets(n, {NoHours}) : tasks = WithIds(p)
    /\ status \in [DOMAIN tasks -> {"pending", "completed"}]
    /\ assigned_agent = [i \in DOMAIN tasks |-> "none"]
    /\ project_found = TRUE
    /\ pc = "coordinator_sort"
    /\ sorted_tasks = <<>>
    /\ remaining_tasks = [i \in DOMAIN tasks |-> i]
    /\ NewService
    /\ NoRun
    /\ NoDecomposition

CoordinatorNext ==
    \/ CoordinatorSelect
    \/ CoordinatorBreak
    \/ CoordinatorReturn
    \/ ExecuteWorkflowTasks

CoordinatorSpec == CoordinatorInit /\ [][CoordinatorNext]_vars

\* the agents whose methods are called in AgentSpec
CalledAgents == {"developer", "tester"}

\* the methods of BaseAgent called in any order, with any task of a small project
AgentInit ==
    /\ \E n \in 1..MaxSimTasks :
          NewTasks([i \in 1..n |-> [id |-> 0, priority |-> 1, estimated_hours |-> NoHours,
                                    dependencies |-> {}]])
    /\ project_found = TRUE
    /\ pc = "idle"
    /\ sorted_tasks = <<>>
    /\ remaining_tasks = <<>>
    /\ NewService
    /\ NoRun
    /\ NoDecomposition

AgentNext ==
    \/ \E a \in CalledAgents : \E t \in DOMAIN tasks : assign_task(a, t)
    \/ \E a \in CalledAgents : \E t \in DOMAIN tasks : complete_task(a, t)
    \/ \E a \in CalledAgents : \E available \in BOOLEAN : set_availability(a, available)

AgentSpec == AgentInit /\ [][AgentNext]_vars

\* one run over a project whose tasks have an estimated duration of 0 hours
ZeroHoursInit ==
    /\ \E n \in 1..MaxSimTasks : \E p \in TaskSets(n, {0}) : NewTasks(p)
    /\ project_found = TRUE
    /\ pc = "idle"
    /\ sorted_tasks = <<>>
    /\ remaining_tasks = <<>>
    /\ NewService
    /\ NoRun
    /\ NoDecomposition

ZeroHoursNext ==
    \/ FirstRequest
    \/ SortSelect
    \/ SortDrain
    \/ SortReturn
    \/ EnterSimulation
    \/ RoundBegin
    \/ ProcessRunningTasks
    \/ CompleteTaskRaises
    \/ StartNewTasks
    \/ \E answer \in OracleAnswers : \E processed \in BOOLEAN :
            AdmitIteration(answer, processed)
    \/ AdvanceTime
    \/ LoopExit
    \/ CalculateFinalStatusRaises

ZeroHoursSpec == ZeroHoursInit /\ [][ZeroHoursNext]_vars

----------------------------------------------------------------------------
(* Properties of the sorter *)

TaskIds == DOMAIN tasks

\* the dependencies of a task that are ids of tasks of the set
PresentDependencies(t) == tasks[t].dependencies \cap TaskIds

\* no cycle among the present ids: the tasks can be ranked with every task above
\* its present dependencies
Acyclic ==
    \E rank \in [TaskIds -> TaskIds] :
        \A t \in TaskIds : \A d \in PresentDependencies(t) : rank[d] < rank[t]

\* every task of seq comes after each of its present dependencies
RespectsDependencies(seq) ==
    \A i \in DOMAIN seq : \A d \in PresentDependencies(seq[i]) :
        \E j \in 1..(i - 1) : seq[j] = d

\* seq holds every task of the set exactly once
IsPermutation(seq) == Len(seq) = Len(tasks) /\ Ids(seq) = TaskIds

\* C1: for a task set without a cycle among its present ids (dangling ids allowed),
\* the ordering the sorter returns has every task after each of its present dependencies
C1_OrderRespectsDependencies ==
    (pc = "sorted" /\ Acyclic) => RespectsDependencies(sorted_tasks)

\* C2: a dangling dependency counts as satisfied, so for a task set without a cycle
\* among its present ids the sorter never takes the drain fallback
C2_NoDrainWithoutCycle ==
    Acyclic => pc # "sort_break"

\* C3: for a task set with a dependency cycle the sorter terminates and its output
\* holds every input task exactly once
C3_CyclicSortTerminatesComplete ==
    (~Acyclic) ~> (pc = "sorted" /\ IsPermutation(sorted_tasks))

\* a cyclic task set was sorted: a task was selected as ready, then the drain
\* fallback emitted the tasks of the cycle
C3_Witness ==
    /\ ~Acyclic
    /\ pc = "sorted"
    /\ remaining_tasks # <<>>
    /\ Len(remaining_tasks) < Len(sorted_tasks)

----------------------------------------------------------------------------
(* Properties of the simulation *)

\* the tasks in flight, in the queue, completed
RunningIds == {running_tasks[i].task : i \in DOMAIN running_tasks}
QueuedIds == Ids(task_queue)
CompletedIds == Ids(completed_tasks)

\* the running tasks an agent type has
InFlight(agent_type) ==
    Cardinality({i \in DOMAIN running_tasks : running_tasks[i].agent_type = agent_type})

\* a run is over: simulate_execution returned or raised
RunEnded == pc \in {"returned", "raised"}

LastLogged == execution_log[Len(execution_log)]

\* C4: a task is admitted only when every id of its dependency set is the id of a
\* completed task
C4_AdmittedAfterDependencies ==
    [][\A t \in RunningIds' \ RunningIds :
            tasks[t].dependencies \subseteq CompletedIds]_vars

\* a task is in flight while a task that depends on it waits in the queue, passed over
C4_Witness ==
    /\ pc = "loop"
    /\ \E t \in RunningIds : \E q \in QueuedIds : t \in tasks[q].dependencies

\* C5: a task whose only dependency is dangling is ready; it is admitted and
\* completed, and the round loop ends with it in the completed set
C5_DanglingTaskCompleted ==
    pc = "final" =>
        \A t \in TaskIds : tasks[t].dependencies = {DanglingId} => t \in CompletedIds

\* C6: the active count of every agent type is at most the request's
\* max_concurrent_tasks
C6_WorkloadWithinCapacity ==
    \A a \in AgentType : agent_workloads[a] <= max_concurrent_tasks

\* an agent type has as many running tasks as the request allows, more than one
C6_Witness ==
    /\ agent_workloads["developer"] = max_concurrent_tasks
    /\ max_concurrent_tasks > 1
    /\ pc = "admit"

\* C7: at every round boundary the completed, queued and running tasks add up to
\* the tasks of the project, and no task is in two of the three collections
C7_TasksConserved ==
    pc = "loop" =>
        /\ Len(completed_tasks) + Len(task_queue) + Len(running_tasks) = Len(tasks)
        /\ CompletedIds \cap QueuedIds = {}
        /\ CompletedIds \cap RunningIds = {}
        /\ QueuedIds \cap RunningIds = {}

\* a round boundary of a run with a task in flight and a task queued
C7_Witness ==
    /\ pc = "loop"
    /\ execution_rounds > 0
    /\ running_tasks # <<>>
    /\ task_queue # <<>>

\* C8: simulate_execution never raises an exception to its caller
C8_NeverRaises ==
    result.kind # "exception"

\* C9: an admission routed to an agent type with fewer running tasks than its
\* capacity succeeds, whatever the type has completed or been given before
C9_FreeCapacityAdmits ==
    (/\ pc = "admit"
     /\ execution_log # <<>>
     /\ LastLogged.type = "error"
     /\ LastLogged.info = <<"Agent not available for task">>)
        => InFlight(LastLogged.agent_type) >= get_max_concurrent_tasks

\* C10: a run ends after at most 50 rounds, and its caller gets a response
C10_EndsWithResponse ==
    RunEnded => (execution_rounds <= max_rounds /\ result.kind = "response")

\* C11: the round loop stops when the queue and the running set are both empty or
\* when the round cap is reached; a run that stops at the cap with tasks still
\* queued or in flight reports success = false and still returns its partial results
C11_CapStopReturnsPartialResults ==
    /\ pc = "final" =>
           \/ task_queue = <<>> /\ running_tasks = <<>>
           \/ execution_rounds = max_rounds
    /\ (/\ RunEnded
        /\ execution_results # <<>>
        /\ execution_rounds = max_rounds
        /\ task_queue # <<>> \/ running_tasks # <<>>)
           => /\ execution_results[1].success = FALSE
              /\ result.kind = "response"

\* the project of the two-task scenario: A without dependencies, B depending on A,
\* one hour each
TwoTaskChain ==
    /\ project_found
    /\ Len(tasks) = 2
    /\ tasks[1].dependencies = {} /\ tasks[1].estimated_hours = 1
    /\ tasks[2].dependencies = {1} /\ tasks[2].estimated_hours = 1

\* C12: for A and B with B depending on A, B is not admitted before A is completed,
\* and the run ends with both completed, completion percentage 100 and no hours left
C12_ChainRunsToCompletion ==
    TwoTaskChain =>
        /\ 2 \in RunningIds => 1 \in CompletedIds
        /\ RunEnded => /\ result.kind = "response"
                       /\ CompletedIds = {1, 2}
                       /\ result.completion_percentage = 100
                       /\ result.estimated_remaining_hours = 0

\* C14: a project with zero tasks returns completion percentage 0 and remaining
\* hours 0 without executing a round
C14_EmptyProjectReturnsZero ==
    (project_found /\ tasks = <<>> /\ RunEnded) =>
        /\ execution_rounds = 0
        /\ result.kind = "response"
        /\ result.completion_percentage = 0
        /\ result.estimated_remaining_hours = 0

\* C15: the "not found" response is returned exactly when the store does not hold
\* the project; a project the store holds yields a simulation result
C15_NotFoundOnlyWhenAbsent ==
    RunEnded =>
        IF project_found
        THEN result.kind = "response" /\ result.error = ""
        ELSE result = NotFoundResponse

\* the agent types of the tasks started so far in this run
StartedTypes ==
    {execution_log[i].agent_type :
        i \in {k \in DOMAIN execution_log : execution_log[k].type = "task_start"}}

\* the times of the completions logged in this run
CompletionTimes ==
    {execution_log[i].timestamp :
        i \in {k \in DOMAIN execution_log : execution_log[k].type = "task_completion"}}

\* C13: with max_concurrent_tasks 1 and three independent one-hour tasks routed to
\* one agent type, at most one task is in flight, the next task is admitted in the
\* round the previous one completes, and all three are completed after three hours
C13_OneAtATimeThreeHours ==
    (/\ max_concurrent_tasks = 1
     /\ Len(tasks) = 3
     /\ \A t \in TaskIds : tasks[t].dependencies = {} /\ tasks[t].estimated_hours = 1
     /\ Cardinality(StartedTypes) <= 1)
        => /\ Len(running_tasks) <= 1
           /\ (pc = "loop" /\ execution_rounds > 0 /\ task_queue # <<>>)
                  => running_tasks # <<>>
           /\ RunEnded => /\ result.kind = "response"
                          /\ CompletedIds = {1, 2, 3}
                          /\ \A time \in CompletionTimes : time <= 3 * RoundsPerHour
                          /\ 3 * RoundsPerHour \in CompletionTimes

\* the log entries a step appends
Appended(log_before, log_after) == SubSeq(log_after, Len(log_before) + 1, Len(log_after))

\* the selection errors among the entries
SelectionErrors(entries) ==
    {i \in DOMAIN entries :
        entries[i].type = "error" /\ entries[i].info = <<"Error selecting agent">>}

\* C16: agent selection yields one of the six agent types and never aborts the run:
\* a recognised answer gives its type, an unrecognised one Developer, and a failure
\* of the oracle is logged as exactly one error and resolved to Developer
C16_SelectionYieldsAgentType ==
    [][\A answer \in OracleAnswers : \A processed \in BOOLEAN :
          AdmitIteration(answer, processed) =>
              LET entries == Appended(execution_log, execution_log')
                  selected == entries[Len(entries)].agent_type
              IN /\ selected \in AgentType
                 /\ answer \in AgentType => selected = answer
                 /\ answer \notin AgentType => selected = "developer"
                 /\ Cardinality(SelectionErrors(entries)) =
                        IF answer = "fails" THEN 1 ELSE 0
                 /\ pc' = "admit"
                 /\ result' = result]_vars

\* the oracle failed, one error was logged and the task started on Developer
C16_Witness ==
    \E i \in DOMAIN execution_log :
        /\ SelectionErrors(<<execution_log[i]>>) = {1}
        /\ i < Len(execution_log)
        /\ execution_log[i + 1].type = "task_start"
        /\ execution_log[i + 1].agent_type = "developer"

\* the position of the heartbeat of the current round in the log (0 before round 1)
LastHeartbeat ==
    LET beats == {i \in DOMAIN execution_log : execution_log[i].type = "state"}
    IN IF beats = {} THEN 0 ELSE CHOOSE i \in beats : \A j \in beats : j <= i

\* the positions of the refused admissions logged in the current round
RefusalsThisRound ==
    {i \in DOMAIN execution_log :
        /\ i > LastHeartbeat
        /\ execution_log[i].type = "error"
        /\ execution_log[i].info = <<"Agent not available for task">>}

\* C17: when the chosen agent type has no free capacity the task goes back to the
\* front of the queue and nothing more is attempted in that round: a round logs at
\* most one refused admission, and nothing after it
C17_RefusalEndsAdmission ==
    /\ Cardinality(RefusalsThisRound) <= 1
    /\ \A i \in RefusalsThisRound :
          /\ i = Len(execution_log)
          /\ task_queue # <<>>
          /\ task_queue[1] = execution_log[i].task_id

\* C18: two runs of the same project with the same oracle answers produce the same
\* sequence of log events
C18_SameRunSameLog ==
    (runs = 2 /\ RunEnded) => execution_log = previous_run.execution_log

Ready == {t \in Ids(remaining_tasks) : tasks[t].dependencies \subseteq Ids(sorted_tasks)}

\* C20: when the scheduler selects from a non-empty ready subset, the selected task
\* has the highest priority among the ready tasks, and among the ready tasks of
\* that priority it is the first in the input order
C20_SelectsFirstOfHighestPriority ==
    [][(pc = "sort" /\ pc' = "sort" /\ sorted_tasks' # sorted_tasks) =>
          LET selected == sorted_tasks'[Len(sorted_tasks')]
          IN /\ selected \in Ready
             /\ \A r \in Ready :
                   /\ tasks[r].priority <= tasks[selected].priority
                   /\ tasks[r].priority = tasks[selected].priority => selected <= r]_vars

\* the first selection passed over an earlier task of lower priority and took the
\* first of two ready tasks of the highest priority
C20_Witness ==
    /\ pc = "sort"
    /\ Len(sorted_tasks) = 1
    /\ \E r \in TaskIds :
          /\ r < sorted_tasks[1]
          /\ tasks[r].dependencies = {}
          /\ tasks[r].priority < tasks[sorted_tasks[1]].priority
    /\ \E r \in TaskIds :
          /\ r > sorted_tasks[1]
          /\ tasks[r].dependencies = {}
          /\ tasks[r].priority = tasks[sorted_tasks[1]].priority

\* seq holds the tasks of from, by descending priority, the tasks of one priority
\* in the order they have in from
IsStableDescending(seq, from) ==
    /\ Len(seq) = Len(from)
    /\ Ids(seq) = Ids(from)
    /\ \A i, j \in DOMAIN seq :
          i < j =>
              /\ tasks[seq[i]].priority >= tasks[seq[j]].priority
              /\ tasks[seq[i]].priority = tasks[seq[j]].priority =>
                     \E k, l \in DOMAIN from :
                         k < l /\ from[k] = seq[i] /\ from[l] = seq[j]

\* every task of seq comes after each id of its dependency set
AfterAllDependencies(seq) ==
    \A i \in DOMAIN seq : \A d \in tasks[seq[i]].dependencies :
        \E j \in 1..(i - 1) : seq[j] = d

\* C21: when tasks remain and none is ready, the scheduler appends all of them at
\* once by descending priority (equal priorities in their remaining order), without
\* a dependency check, and stops; the output before the fallback respects dependencies
C21_FallbackAppendsByPriority ==
    [][/\ (pc = "sort" /\ remaining_tasks # <<>> /\ Ready = {}) =>
              /\ pc' = "sort_break"
              /\ AfterAllDependencies(sorted_tasks)
              /\ \E appended \in [1..Len(remaining_tasks) -> Ids(remaining_tasks)] :
                    /\ sorted_tasks' = sorted_tasks \o appended
                    /\ IsStableDescending(appended, remaining_tasks)
       /\ pc = "sort_break" => (pc' = "sorted" /\ sorted_tasks' = sorted_tasks)]_vars

\* the fallback ran after a selection and reordered the remaining tasks
C21_Witness ==
    /\ pc = "sort_break"
    /\ Len(sorted_tasks) > Len(remaining_tasks)
    /\ \E i, j \in DOMAIN remaining_tasks :
          i < j /\ remaining_tasks[i] > remaining_tasks[j]

\* the estimated duration of a task in rounds, 4 hours when absent
DurationInRounds(t) ==
    RoundsPerHour * (IF tasks[t].estimated_hours = NoHours THEN DefaultHours
                                                            ELSE tasks[t].estimated_hours)

\* C22: an advancement step marks Completed every in-flight task whose elapsed time
\* has reached its estimated duration (4 hours when absent), and no other: a task is
\* completed in the first step with clock - start >= duration, a 1-hour task after
\* two rounds
C22_CompletedWhenElapsedReachesDuration ==
    [][pc = "process" =>
          \A i \in DOMAIN running_tasks :
              LET t == running_tasks[i].task
                  reached == current_time - running_tasks[i].start_time >= DurationInRounds(t)
              IN /\ reached => status'[t] = "completed"
                 /\ ~reached => status'[t] = "in_progress"]_vars

\* C23: a task whose estimated duration is 0 needs no elapsed time to complete: the
\* first advancement step that finds it in flight marks it Completed
C23_ZeroDurationCompletesAtOnce ==
    [][pc = "process" =>
          \A i \in DOMAIN running_tasks :
              tasks[running_tasks[i].task].estimated_hours = 0
                  => status'[running_tasks[i].task] = "completed"]_vars

\* the sum of the first n values of the sequence of numbers f
RECURSIVE SumTo(_, _)
SumTo(f, n) == IF n = 0 THEN 0 ELSE f[n] + SumTo(f, n - 1)

\* what is left of an in-flight task, in rounds, not below 0
LeftOf(task_info) ==
    LET left == DurationInRounds(task_info.task) - (current_time - task_info.start_time)
    IN IF left > 0 THEN left ELSE 0

\* the remaining work in rounds: the durations of the queued tasks and what is left
\* of each in-flight task
RemainingRounds ==
    SumTo([i \in DOMAIN task_queue |-> DurationInRounds(task_queue[i])], Len(task_queue))
    + SumTo([i \in DOMAIN running_tasks |-> LeftOf(running_tasks[i])], Len(running_tasks))

\* C24: the run of a found project returns as estimated remaining hours the sum of the
\* durations of the tasks still queued and of what is left of each in-flight task,
\* never negative, and 0 when every task has completed
C24_RemainingHoursReturned ==
    (RunEnded /\ project_found) =>
        /\ result.kind = "response"
        /\ RoundsPerHour * result.estimated_remaining_hours = RemainingRounds
        /\ result.estimated_remaining_hours >= 0
        /\ CompletedIds = TaskIds => result.estimated_remaining_hours = 0

\* C25: a task that was never admitted within the round budget keeps status Pending
\* and stays in the queue, nothing is put in the failed set, and the run reports it:
\* the final status is returned with remaining = total - completed
C25_UnadmittedStaysPending ==
    (RunEnded /\ project_found /\ runs = 1) =>
        /\ failed_tasks = <<>>
        /\ \A t \in TaskIds :
              assigned_agent[t] = "none" => (status[t] = "pending" /\ t \in QueuedIds)
        /\ result.kind = "response"

\* C26: the steps of a round run in this order: heartbeat, advancement of the in-flight
\* tasks with their completions, admission of new tasks, then the clock moves by one
\* round; so an admission follows the completions of its round, and no task is
\* admitted and completed in the same round
C26_RoundStepsInOrder ==
    [][/\ (pc = "loop" /\ pc' = "process") =>
              /\ execution_log' = Append(execution_log, execution_log'[Len(execution_log')])
              /\ execution_log'[Len(execution_log')].type = "state"
              /\ current_time' = current_time
       /\ pc = "process" => (pc' = "start" /\ current_time' = current_time)
       /\ pc = "start" => (pc' = "admit" /\ current_time' = current_time)
       /\ pc = "admit" =>
              \/ pc' = "admit" /\ current_time' = current_time
              \/ pc' = "loop" /\ current_time' = current_time + 1
       /\ \A i \in DOMAIN running_tasks :
              running_tasks[i].task \in CompletedIds' \ CompletedIds
                  => running_tasks[i].start_time < current_time]_vars

\* C30: the state of the simulation is per run: when a run starts, also a second run
\* on a service whose earlier run admitted tasks, every agent type has its whole
\* capacity free
C30_AgentsFreeAtRunStart ==
    (runs >= 1 /\ pc = "sort") =>
        \A a \in AgentType : is_available[a] /\ current_tasks[a] = <<>>

\* the position of a task in the ordering the run began with
PositionInSorted(t) == CHOOSE i \in DOMAIN sorted_tasks : sorted_tasks[i] = t

\* the last log entry says that an agent refused a task
RefusalLogged(log) ==
    /\ log # <<>>
    /\ log[Len(log)].type = "error"
    /\ log[Len(log)].info = <<"Agent not available for task">>

CanStart(t) == tasks[t].dependencies \subseteq CompletedIds

\* C28: an admission takes the first task of the queue, front to back, whose
\* dependencies are satisfied; the tasks passed over stay where they are, and only
\* the admitted task leaves the queue
C28_AdmitsFirstSatisfied ==
    [][(pc = "admit" /\ Len(running_tasks') = Len(running_tasks) + 1) =>
          LET admitted == running_tasks'[Len(running_tasks')].task
          IN /\ \E i \in DOMAIN task_queue :
                   /\ task_queue[i] = admitted
                   /\ CanStart(admitted)
                   /\ \A j \in 1..(i - 1) : ~CanStart(task_queue[j])
                   /\ task_queue' = SubSeq(task_queue, 1, i - 1)
                                        \o SubSeq(task_queue, i + 1, Len(task_queue))]_vars

\* a task was admitted from behind a blocked task, which is still at the front of
\* the queue
C28_Witness ==
    /\ pc = "admit"
    /\ running_tasks # <<>>
    /\ running_tasks[Len(running_tasks)].start_time = current_time
    /\ task_queue # <<>>
    /\ ~CanStart(task_queue[1])
    /\ PositionInSorted(task_queue[1])
           < PositionInSorted(running_tasks[Len(running_tasks)].task)

\* the log as its reader finds it when the completed list is `completed`
LogAsRead(log, completed) == [i \in DOMAIN log |-> ReadEntry(log[i], completed)]

\* the heartbeats among the entries
Heartbeats(entries) == {i \in DOMAIN entries : entries[i].type = "state"}

\* C29: the log of a run is append-only and ordered in time: no entry is removed or
\* rewritten, timestamps do not decrease, and a round adds exactly one heartbeat,
\* as its first entry, with the running, queued and completed counts at its start
C29_LogAppendOnly ==
    [][runs' = runs =>
          LET before == LogAsRead(execution_log, completed_tasks)
              after == LogAsRead(execution_log', completed_tasks')
              entries == Appended(before, after)
          IN /\ Len(after) >= Len(before)
             /\ SubSeq(after, 1, Len(before)) = before
             /\ \A i \in 1..(Len(after) - 1) : after[i].timestamp <= after[i + 1].timestamp
             /\ IF execution_rounds' # execution_rounds
                THEN /\ Heartbeats(entries) = {1}
                     /\ entries[1].info[1] = execution_rounds'
                     /\ entries[1].info[2] = Len(running_tasks)
                     /\ entries[1].info[3] = Len(task_queue)
                     /\ Len(entries[1].info[4]) = Len(completed_tasks)
                ELSE Heartbeats(entries) = {}]_vars

\* C32: at every round boundary the active count of each agent type is the number of
\* in-flight tasks of that type: the counts add up to the size of the in-flight set
\* and none is negative
C32_WorkloadCountsInFlight ==
    pc = "loop" =>
        /\ \A a \in AgentType : agent_workloads[a] = InFlight(a) /\ agent_workloads[a] >= 0
        /\ SumTo([i \in 1..6 |->
                    agent_workloads[<<"planner", "analyzer", "developer", "tester",
                                      "reviewer", "coordinator">>[i]]], 6)
               = Len(running_tasks)

\* a round boundary with tasks in flight on two agent types
C32_Witness ==
    /\ pc = "loop"
    /\ agent_workloads["developer"] = 1
    /\ agent_workloads["tester"] = 1

\* the tasks that were in flight when the admission of the current round began
InFlightBeforeRound ==
    Cardinality({i \in DOMAIN running_tasks : running_tasks[i].start_time < current_time})

\* C33: the in-flight tasks of all agent types together never exceed the request's
\* max_concurrent_tasks, and a round attempts at most max_concurrent_tasks minus the
\* in-flight count at the start of its admission
C33_InFlightWithinRequestLimit ==
    /\ Len(running_tasks) <= max_concurrent_tasks
    /\ pc = "admit" =>
           /\ available_slots = max_concurrent_tasks - InFlightBeforeRound
           /\ slot <= available_slots

\* a round that had one slot left used it: as many tasks in flight as the request
\* allows, one of them from an earlier round
C33_Witness ==
    /\ pc = "admit"
    /\ InFlightBeforeRound = 1
    /\ slot = 1
    /\ Len(running_tasks) = 2
    /\ max_concurrent_tasks = 2

\* C34: the final status reports success = true exactly when the run ended with the
\* queue and the in-flight set both empty
C34_SuccessIffAllDone ==
    (RunEnded /\ execution_results # <<>>) =>
        /\ result.kind = "response"
        /\ execution_results[1].success <=> (task_queue = <<>> /\ running_tasks = <<>>)

C38_ClockIsRoundsTimesHalfHour ==
    (RunEnded /\ project_found) =>
        /\ current_time = execution_rounds
        /\ execution_rounds \in 0..max_rounds
        /\ result.kind = "response"

\* C39: assign_task succeeds exactly when the agent is available and holds fewer than
\* get_max_concurrent_tasks task ids; then it adds the id and sets the task to
\* InProgress with the agent's type, else it changes nothing; whatever the calls, an
\* agent never holds more than get_max_concurrent_tasks ids
C39_AssignWithinCapacity ==
    [][\A a \in AgentType :
          /\ Len(current_tasks'[a]) <= get_max_concurrent_tasks
          /\ Len(current_tasks'[a]) > Len(current_tasks[a]) =>
                 /\ is_available[a]
                 /\ Len(current_tasks[a]) < get_max_concurrent_tasks
          /\ \A t \in TaskIds :
                 assign_task(a, t) =>
                     IF is_available[a] /\ Len(current_tasks[a]) < get_max_concurrent_tasks
                     THEN /\ current_tasks'[a] = Append(current_tasks[a], t)
                          /\ status'[t] = "in_progress"
                          /\ assigned_agent'[t] = a
                     ELSE UNCHANGED <<current_tasks, is_available, status, assigned_agent>>]_vars

\* an agent holds as many ids as it can, and an agent was made unavailable
C39_Witness ==
    /\ pc = "idle"
    /\ Len(current_tasks["developer"]) = get_max_concurrent_tasks
    /\ ~is_available["tester"]

\* C36: in a run that started with every task Pending, at every round boundary each
\* task of the ready queue is Pending, each task in flight is InProgress and each
\* task of the completed set is Completed
C36_StatusMatchesPlace ==
    (runs = 1 /\ pc = "loop") =>
        /\ \A i \in DOMAIN task_queue : status[task_queue[i]] = "pending"
        /\ \A i \in DOMAIN running_tasks : status[running_tasks[i].task] = "in_progress"
        /\ \A i \in DOMAIN completed_tasks : status[completed_tasks[i]] = "completed"

\* a round boundary of the first run with a Pending task queued behind a task that
\* an agent has taken
C36_Witness ==
    /\ runs = 1
    /\ pc = "loop"
    /\ \E i \in DOMAIN task_queue : status[task_queue[i]] = "pending"
    /\ \E i \in DOMAIN running_tasks : assigned_agent[running_tasks[i].task] # "none"

\* C37: the ordering _sort_tasks_by_dependencies returns has no duplicates, has every
\* task after all of its dependencies, and holds every input task, those in a
\* dependency cycle or with a missing dependency id included
C37_CoordinatorReturnsEveryTask ==
    pc = "workflow" =>
        /\ Ids(sorted_tasks) \subseteq TaskIds
        /\ \A i, j \in DOMAIN sorted_tasks : sorted_tasks[i] = sorted_tasks[j] => i = j
        /\ RespectsDependencies(sorted_tasks)
        /\ Ids(sorted_tasks) = TaskIds

\* the agent result of the for-loop iteration just made, if one was made
LastTaskResult(after) == after.task_results[Len(after.task_results)]

\* C31: decomposition returns after at most max_depth layers; while it runs the
\* project's tasks only grow at the end, each task is handed to an agent at most
\* once, a parent becomes Completed only in the iteration whose agent result holds
\* subtasks, and an agent failure adds no task and changes no status while the loop
\* goes on to the next task of the layer, a layer ending only after its last task
C31_DecompositionLayersBounded ==
    /\ [][/\ Len(tasks') >= Len(tasks)
          /\ SubSeq(tasks', 1, Len(tasks)) = tasks
          /\ \A t \in DOMAIN tasks :
                (status'[t] = "completed" /\ status[t] # "completed") =>
                    /\ decomposition'.task_results # decomposition.task_results
                    /\ LastTaskResult(decomposition').task = t
                    /\ LastTaskResult(decomposition').result \in 0..MaxSubtasks
          /\ ( /\ decomposition'.task_results # decomposition.task_results
               /\ LastTaskResult(decomposition').result = NoAgentResult ) =>
                    /\ tasks' = tasks
                    /\ status' = status
                    /\ decomposition'.next_layer_tasks = decomposition.next_layer_tasks
                    /\ decomposition'.position = decomposition.position + 1
          /\ decomposition'.current_tasks # decomposition.current_tasks =>
                    decomposition.position = Len(decomposition.current_tasks)]_vars
    /\ [](Len(decomposition.decomposition_layers) <= decomposition.max_depth)
    /\ [](\A i, j \in DOMAIN decomposition.task_results :
            decomposition.task_results[i].task = decomposition.task_results[j].task => i = j)
    /\ <>(pc = "decomposed")

\* decomposition returned because max_depth was reached with tasks left to decompose;
\* in the second layer the agent failed for task 2 and returned subtasks for task 3
C31_Witness ==
    /\ pc = "decomposed"
    /\ decomposition.current_depth = decomposition.max_depth
    /\ decomposition.current_tasks # <<>>
    /\ Len(decomposition.task_results) >= 3
    /\ decomposition.task_results[2] = [task |-> 2, result |-> NoAgentResult]
    /\ decomposition.task_results[3].task = 3
    /\ decomposition.task_results[3].result >= 1
    /\ status[3] = "completed"

\* the tasks the run before this one logged as completed
CompletedBefore ==
    {previous_run.execution_log[i].task_id :
        i \in {k \in DOMAIN previous_run.execution_log :
                  previous_run.execution_log[k].type = "task_completion"}}

\* C40: whatever the statuses at its start, a run enters its loop with an empty
\* completed set, nothing in flight and every task of the project in the queue, and a
\* task is admitted only when all its dependencies are in the completed set of this
\* run: a task Completed before the run is executed again, and a dependency on it
\* waits for that
C40_StatusAtStartIgnored ==
    [][/\ (pc = "sorted" /\ pc' = "loop") =>
              /\ completed_tasks' = <<>>
              /\ running_tasks' = <<>>
              /\ IsPermutation(task_queue')
       /\ \A t \in TaskIds :
              (t \in RunningIds' /\ t \notin RunningIds) =>
                  tasks[t].dependencies \subseteq CompletedIds]_vars

\* in the second run a task that the first run completed is in flight again, and a
\* task that depends on it waits in the queue
C40_Witness ==
    /\ runs = 2
    /\ pc = "loop"
    /\ \E t \in CompletedBefore :
          /\ t \in RunningIds
          /\ t \notin CompletedIds
          /\ \E d \in QueuedIds : t \in tasks[d].dependencies

====
